---------------------------- MODULE Spec2Model ----------------------------
(***************************************************************************)
(* A model of the PowerShell MCP server: the line-delimited JSON-RPC loop  *)
(* (run_server), the dispatcher (handle_request, _handle_tools_call), the  *)
(* argument validator, the three tools and the terminal-readiness machine  *)
(* (_ensure_terminal_available, launch_terminal, paste_content).           *)
(*                                                                         *)
(* JSON values are tagged records, so that Python's behaviour on a value   *)
(* of an unexpected type (truthiness, isinstance, a missing method) is     *)
(* modelled rather than assumed away.  External capabilities (process      *)
(* inspection, window query, input injection, clipboard, screen capture)   *)
(* answer nondeterministically.                                            *)
(***************************************************************************)
EXTENDS Integers, Sequences, FiniteSets, TLC

(***************************************************************************)
(* Bounds of the model.                                                    *)
(***************************************************************************)
\* longest string (script, path, clipboard text) in characters
MaxLen == 1
\* largest integer request id
MaxId == 2

(***************************************************************************)
(* Program constants.                                                      *)
(***************************************************************************)
DEFAULT_TIMEOUT == 30
DEFAULT_RETRY_ATTEMPTS == 10
MULTILINE_EXECUTION_DELAY == 2
SINGLELINE_EXECUTION_DELAY == 1
PROTOCOL_VERSION == "2024-11-05"
SERVER_VERSION == "1.1.0"
\* launch_terminal: max_wait = 15 seconds, polled every poll_interval = 0.5 s;
\* the model counts `waited` in poll intervals
max_wait == 15
polls_per_second == 2
\* capture_terminal_output: title_bar_height = 35
title_bar_height == 35
\* schema limits of execute_pwsh_script.timeout
TIMEOUT_MINIMUM == 1
TIMEOUT_MAXIMUM == 300
\* the id run_server and handle_request fall back to
FALLBACK_ID == 1

PARSE_ERROR == -32700
METHOD_NOT_FOUND == -32601
INVALID_PARAMS == -32602
INTERNAL_ERROR == -32603

(***************************************************************************)
(* JSON values.  k is the Python type the value is parsed to; n carries a  *)
(* number (an int, a bool as 0/1, a float in tenths, a container's         *)
(* length); s carries a text as a sequence of characters; t carries a      *)
(* text that is compared only as a whole (a method or tool name).          *)
(***************************************************************************)
NL == "\n"
Chars == {"a", " ", NL}

JVal(k, n, s, t) == [k |-> k, n |-> n, s |-> s, t |-> t]
Absent == JVal("absent", 0, <<>>, "")
JNull == JVal("null", 0, <<>>, "")
JBool(b) == JVal("bool", IF b THEN 1 ELSE 0, <<>>, "")
JInt(i) == JVal("int", i, <<>>, "")
JFloat(tenths) == JVal("float", tenths, <<>>, "")
JStr(s) == JVal("str", 0, s, "")
JTok(t) == JVal("str", 0, <<>>, t)
JList(len) == JVal("list", len, <<>>, "")
JDict(len) == JVal("dict", len, <<>>, "")

\* dict.get(key, default) on a key whose value (or absence) is v
Get(v, default) == IF v.k = "absent" THEN default ELSE v

\* Python truthiness: `not v` is ~Truthy(v)
Truthy(v) ==
    CASE v.k \in {"absent", "null"} -> FALSE
      [] v.k \in {"bool", "int", "float", "list", "dict"} -> v.n # 0
      [] v.k = "str" -> v.s # <<>> \/ v.t # ""

\* isinstance(v, int): bool is a subclass of int
IsInstanceInt(v) == v.k \in {"int", "bool"}

\* `key in self.tools` raises TypeError on an unhashable key
Hashable(v) == v.k \notin {"list", "dict"}

(***************************************************************************)
(* Text.                                                                   *)
(***************************************************************************)
StrSet(n) == UNION {[1..k -> Chars] : k \in 0..n}

IsSpace(c) == c \in {" ", NL}

RECURSIVE LStrip(_)
LStrip(s) == IF s # <<>> /\ IsSpace(Head(s)) THEN LStrip(Tail(s)) ELSE s

RECURSIVE RStrip(_)
RStrip(s) ==
    IF s # <<>> /\ IsSpace(s[Len(s)]) THEN RStrip(SubSeq(s, 1, Len(s) - 1)) ELSE s

\* str.strip()
Strip(s) == RStrip(LStrip(s))

\* str.split("\n")
RECURSIVE Split(_)
Split(s) ==
    IF \A i \in 1..Len(s) : s[i] # NL
    THEN <<s>>
    ELSE LET i == CHOOSE i \in 1..Len(s) : s[i] = NL /\ \A j \in 1..(i - 1) : s[j] # NL
         IN  <<SubSeq(s, 1, i - 1)>> \o Split(SubSeq(s, i + 1, Len(s)))

\* [line.strip() for line in script.split("\n") if line.strip()]
RECURSIVE StripEach(_)
StripEach(ls) == IF ls = <<>> THEN <<>> ELSE <<Strip(Head(ls))>> \o StripEach(Tail(ls))

NonBlank(line) == line # <<>>

\* the mutation: the filter `if line.strip()` is forgotten
ScriptLinesUnfiltered(script) == StripEach(Split(script))

ScriptLines(script) == SelectSeq(StripEach(Split(script)), NonBlank)

(***************************************************************************)
(* The tool registry.                                                      *)
(***************************************************************************)
Prop(name, type, ranged, minimum, maximum, minLength) ==
    [name |-> name, type |-> type, ranged |-> ranged, minimum |-> minimum,
     maximum |-> maximum, minLength |-> minLength]

ToolDef(name, properties, required) ==
    [name |-> name, properties |-> properties, required |-> required]

\* sorted(self.tools.values(), key=name): the definitions in name order
DefineToolsSorted ==
    << ToolDef("capture_pwsh_response",
               << Prop("save_path", "string", FALSE, 0, 0, 0),
                  Prop("exclude_titlebar", "boolean", FALSE, 0, 0, 0) >>,
               <<>>),
       ToolDef("execute_pwsh_script",
               << Prop("script", "string", FALSE, 0, 0, 1),
                  Prop("timeout", "integer", TRUE, TIMEOUT_MINIMUM, TIMEOUT_MAXIMUM, 0) >>,
               <<"script">>),
       ToolDef("get_clipboard", <<>>, <<>>) >>

\* a dict keeps insertion order: the registry is the sequence of its values
DefineTools ==
    << ToolDef("execute_pwsh_script",
               << Prop("script", "string", FALSE, 0, 0, 1),
                  Prop("timeout", "integer", TRUE, TIMEOUT_MINIMUM, TIMEOUT_MAXIMUM, 0) >>,
               <<"script">>),
       ToolDef("get_clipboard", <<>>, <<>>),
       ToolDef("capture_pwsh_response",
               << Prop("save_path", "string", FALSE, 0, 0, 0),
                  Prop("exclude_titlebar", "boolean", FALSE, 0, 0, 0) >>,
               <<>>) >>

ToolNames(reg) == {reg[i].name : i \in 1..Len(reg)}

\* tool_name in self.tools, for a hashable tool_name
InRegistry(tool_name, reg) == tool_name.k = "str" /\ tool_name.s = <<>> /\ tool_name.t \in ToolNames(reg)

\* self.tools.get(tool_name, {}).get("inputSchema", {}).get("required", [])
RequiredFields(tool_name, reg) ==
    IF InRegistry(tool_name, reg)
    THEN (CHOOSE d \in {reg[i] : i \in 1..Len(reg)} : d.name = tool_name.t).required
    ELSE <<>>


(***************************************************************************)
(* Requests.  A parsed line is one record: top is the Python type of the   *)
(* parsed value ("dict" for a JSON object); the other fields are the       *)
(* values found under request, request["params"] and                       *)
(* request["params"]["arguments"], Absent for a key that is not there.     *)
(***************************************************************************)
Req(top, id, method, params, name, arguments, script, timeout, save_path, exclude_titlebar) ==
    [top |-> top, id |-> id, method |-> method, params |-> params, name |-> name,
     arguments |-> arguments, script |-> script, timeout |-> timeout,
     save_path |-> save_path, exclude_titlebar |-> exclude_titlebar]

NoRequest == Req("none", Absent, Absent, Absent, Absent, Absent, Absent, Absent, Absent, Absent)

IdVals == {Absent, JNull} \cup {JInt(i) : i \in 1..MaxId}

OtherMethodVals == {Absent, JNull, JTok("ping"), JInt(5)}

NameVals ==
    {Absent, JNull, JTok(""), JInt(0), JInt(5), JList(1), JTok("no_such_tool"),
     JTok("execute_pwsh_script"), JTok("get_clipboard"), JTok("capture_pwsh_response")}

ScriptVals == {Absent, JNull, JInt(0), JInt(5), JList(1)} \cup {JStr(s) : s \in StrSet(MaxLen)}

TimeoutVals ==
    {Absent, JNull, JInt(0), JInt(TIMEOUT_MINIMUM), JInt(TIMEOUT_MAXIMUM),
     JInt(TIMEOUT_MAXIMUM + 1), JBool(TRUE), JBool(FALSE), JStr(<<"a">>), JFloat(15)}

SavePathVals == {Absent, JNull, JStr(<<"a">>), JInt(5)}

ExcludeTitlebarVals == {Absent, JBool(TRUE), JBool(FALSE), JInt(0), JStr(<<"a">>)}

\* the values a JSON line that is not an object parses to
NonObjectRequests ==
    {Req(top, Absent, Absent, Absent, Absent, Absent, Absent, Absent, Absent, Absent) :
        top \in {"null", "int", "str", "list"}}

SimpleRequests ==
    {Req("dict", id, m, p, Absent, Absent, Absent, Absent, Absent, Absent) :
        id \in IdVals,
        m \in {JTok("initialize"), JTok("tools/list")} \cup OtherMethodVals,
        p \in {Absent, JList(1)}}

\* the argument mappings tried with a tool name
ArgumentSets(name) ==
    CASE name = JTok("execute_pwsh_script") ->
            {<<a, Absent, Absent, Absent, Absent>> : a \in {Absent, JList(1)}}
            \cup {<<JDict(0), s, t, Absent, Absent>> : s \in ScriptVals, t \in TimeoutVals}
      [] name = JTok("capture_pwsh_response") ->
            {<<a, Absent, Absent, Absent, Absent>> : a \in {Absent, JNull}}
            \cup {<<JDict(0), Absent, Absent, sp, et>> :
                    sp \in SavePathVals, et \in ExcludeTitlebarVals}
      [] OTHER ->
            {<<a, Absent, Absent, Absent, Absent>> : a \in {Absent, JNull, JDict(0)}}

CallRequests ==
    {Req("dict", id, JTok("tools/call"), p, Absent, Absent, Absent, Absent, Absent, Absent) :
        id \in IdVals, p \in {Absent, JNull, JList(1)}}
    \cup UNION {
        {Req("dict", id, JTok("tools/call"), JDict(0), name, a[1], a[2], a[3], a[4], a[5]) :
            id \in IdVals, a \in ArgumentSets(name)} : name \in NameVals}

Requests == NonObjectRequests \cup SimpleRequests \cup CallRequests

\* arguments[field]
ArgOf(req, field) ==
    CASE field = "script" -> req.script
      [] field = "timeout" -> req.timeout
      [] field = "save_path" -> req.save_path
      [] field = "exclude_titlebar" -> req.exclude_titlebar
      [] OTHER -> Absent

(***************************************************************************)
(* Responses.                                                              *)
(***************************************************************************)
NoPayload ==
    [tool |-> "", success |-> FALSE, error |-> "", lines_count |-> 0,
     is_multiline |-> FALSE, script_type |-> "", timeout_used |-> Absent,
     content |-> <<>>, length |-> 0, is_empty |-> FALSE,
     exclude_titlebar |-> Absent, custom_path |-> FALSE, width |-> 0, height |-> 0]

NoResult ==
    [what |-> "none", tools |-> <<>>, payload |-> NoPayload,
     protocolVersion |-> "", serverVersion |-> ""]

NoResponse == [tag |-> "none", id |-> Absent, code |-> 0, message |-> "", result |-> NoResult]

\* the mutation: the id is not passed on
CreateErrorResponseFixedId(request_id, code, message) ==
    [tag |-> "error", id |-> JInt(FALLBACK_ID), code |-> code, message |-> message,
     result |-> NoResult]

CreateErrorResponse(request_id, code, message) ==
    [tag |-> "error", id |-> request_id, code |-> code, message |-> message,
     result |-> NoResult]

ResultResponse(request_id, result) ==
    [tag |-> "result", id |-> request_id, code |-> 0, message |-> "", result |-> result]

HandleInitializeResponse(request_id) ==
    ResultResponse(request_id,
        [NoResult EXCEPT !.what = "initialize", !.protocolVersion = PROTOCOL_VERSION,
                         !.serverVersion = SERVER_VERSION])

\* the mutation: the definitions are listed in name order
HandleToolsListSorted(request_id, reg) ==
    ResultResponse(request_id, [NoResult EXCEPT !.what = "tools", !.tools = DefineToolsSorted])

HandleToolsListResponse(request_id, reg) ==
    ResultResponse(request_id, [NoResult EXCEPT !.what = "tools", !.tools = reg])

\* {"content": [{"type": "text", "text": json.dumps(result)}]}
ToolResponse(request_id, payload) ==
    ResultResponse(request_id, [NoResult EXCEPT !.what = "tool", !.payload = payload])

\* request.get("id", 1)
RequestId(req) == Get(req.id, JInt(FALLBACK_ID))

(***************************************************************************)
(* _validate_tool_arguments: [raised, error], error "" for None.           *)
(***************************************************************************)
Valid == [raised |-> FALSE, error |-> ""]
Invalid(message) == [raised |-> FALSE, error |-> message]
Raised(exception) == [raised |-> TRUE, error |-> exception]

default_timeout == DEFAULT_TIMEOUT

\* the mutation: `not script` alone, the strip() test forgotten
ScriptIsEmpty(s) == s = <<>>

\* not script or not script.strip(), for a script that is a string
ScriptIsBlank(s) == s = <<>> \/ Strip(s) = <<>>

\* not isinstance(timeout, int) or timeout < 1 or timeout > 300
TimeoutIsInvalid(timeout) ==
    ~IsInstanceInt(timeout) \/ timeout.n < TIMEOUT_MINIMUM \/ timeout.n > TIMEOUT_MAXIMUM

ValidateToolArguments(tool_name, req, reg) ==
    LET required == RequiredFields(tool_name, reg)
        missing == {i \in 1..Len(required) : ArgOf(req, required[i]).k = "absent"}
        first == CHOOSE i \in missing : \A j \in missing : i <= j
        script == Get(req.script, JStr(<<>>))
        timeout == Get(req.timeout, JInt(default_timeout))
    IN  IF missing # {}
        THEN Invalid("Missing required argument: " \o required[first])
        ELSE IF tool_name.t = "execute_pwsh_script"
        THEN IF ~Truthy(script) THEN Invalid("Script cannot be empty")
             ELSE IF script.k # "str" THEN Raised("AttributeError")
             ELSE IF ScriptIsBlank(script.s) THEN Invalid("Script cannot be empty")
             ELSE IF TimeoutIsInvalid(timeout)
             THEN Invalid("Timeout must be an integer between 1 and 300 seconds")
             ELSE Valid
        ELSE Valid

(***************************************************************************)
(* _handle_tools_call up to the start of the tool body: what the call      *)
(* comes to before any tool runs.  kind "response": the response is        *)
(* returned; kind "raise": the exception leaves _handle_tools_call (it is  *)
(* raised outside its try block); kind "run": the tool body starts.        *)
(***************************************************************************)
Respond(response) == [kind |-> "response", response |-> response, tool |-> ""]
Raise(exception) ==
    [kind |-> "raise", response |-> [NoResponse EXCEPT !.message = exception], tool |-> ""]
Run(tool_name) == [kind |-> "run", response |-> NoResponse, tool |-> tool_name]

\* the mutation: an unknown tool is reported as invalid params
UnknownToolAsInvalidParams(request_id, tool_name) ==
    CreateErrorResponse(request_id, INVALID_PARAMS, "Unknown tool")

UnknownToolResponse(request_id, tool_name) ==
    CreateErrorResponse(request_id, METHOD_NOT_FOUND, "Unknown tool")

HandleToolsCallEntry(req, reg) ==
    LET request_id == RequestId(req)
        params == Get(req.params, JDict(0))
        tool_name == Get(req.name, JNull)
        arguments == Get(req.arguments, JDict(0))
        validation == ValidateToolArguments(tool_name, req, reg)
    IN  IF params.k # "dict" THEN Raise("AttributeError")
        ELSE IF ~Truthy(tool_name)
        THEN Respond(CreateErrorResponse(request_id, INVALID_PARAMS, "Tool name is required"))
        ELSE IF ~Hashable(tool_name) THEN Raise("TypeError")
        ELSE IF ~InRegistry(tool_name, reg)
        THEN Respond(UnknownToolResponse(request_id, tool_name))
        ELSE IF arguments.k # "dict" THEN Raise("AttributeError")
        ELSE IF validation.raised
        THEN Respond(CreateErrorResponse(request_id, INTERNAL_ERROR,
                        "Tool execution failed: " \o validation.error))
        ELSE IF validation.error # ""
        THEN Respond(CreateErrorResponse(request_id, INVALID_PARAMS, validation.error))
        ELSE Run(tool_name.t)


(***************************************************************************)
(* The external capabilities, as the answers they may give.                *)
(***************************************************************************)
\* is_terminal_running(): psutil.process_iter may itself raise
RunningAnswers == {"true", "false", "raise"}

\* pyperclip.paste(): the exception it may raise, by its message
ClipboardFaults == {"clipboard unavailable", "access denied"}

\* find_terminal_window(): None, or the rectangle of the first window found
NoWindow == [found |-> FALSE, left |-> 0, top |-> 0, width |-> 0, height |-> 0]

Windows ==
    {[found |-> TRUE, left |-> l, top |-> t, width |-> w, height |-> h] :
        l \in {0, 3}, t \in {0, 20}, w \in {0, 80},
        h \in {0, title_bar_height - 1, title_bar_height, title_bar_height + 1}}

WindowAnswers == {NoWindow} \cup Windows

\* the readiness machine looks only at whether a window was found
FoundAnswers ==
    {NoWindow, [found |-> TRUE, left |-> 0, top |-> 0, width |-> 80, height |-> 60]}

\* focus_terminal(): what enumeration, activation and the active-window check
\* do.  fault: an exception outside the inner handlers, which the outer one
\* turns into False; activate "raises": activate() raised and minimize/restore
\* went through, "alternative_raises": those raised too; verify "other": another
\* window is the active one, "fault": getActiveWindow() raised
FocusEnv(fault, found, activate, verify) ==
    [fault |-> fault, found |-> found, activate |-> activate, verify |-> verify]

NoFocus == FocusEnv(FALSE, FALSE, "none", "none")

FocusAnswers ==
    {FocusEnv(TRUE, FALSE, "ok", "match"), FocusEnv(FALSE, FALSE, "ok", "match")}
    \cup {FocusEnv(FALSE, TRUE, a, v) :
            a \in {"ok", "raises", "alternative_raises"},
            v \in {"match", "other", "fault"}}

\* the window operations focus_terminal() issues on the first window found
FocusRequests(e) ==
    IF e.fault \/ ~e.found THEN <<>>
    ELSE CASE e.activate = "ok" -> <<"activate">>
           [] e.activate = "raises" -> <<"activate", "minimize", "restore">>
           [] e.activate = "alternative_raises" -> <<"activate", "minimize">>

\* the mutation: focus that the active-window check does not confirm is refused
FocusTerminalVerified(e) ==
    IF e.fault THEN FALSE
    ELSE IF ~e.found THEN FALSE
    ELSE e.verify = "match"

FocusTerminal(e) ==
    IF e.fault THEN FALSE
    ELSE IF ~e.found THEN FALSE
    ELSE CASE e.verify = "match" -> TRUE
           [] e.verify = "other" -> TRUE
           [] e.verify = "fault" -> TRUE

\* what is_terminal_running(), find_terminal_window() and focus_terminal()
\* answer when asked in a row: <<running, found, focused>>; the window is
\* asked for only of a running terminal and focus only on a window found, and
\* an answer not asked for is FALSE
ReadinessAnswers ==
    {<<r, FALSE, FALSE>> : r \in RunningAnswers}
    \cup {<<"true", w.found, w.found /\ FocusTerminal(f)>> :
            w \in FoundAnswers, f \in FocusAnswers}

\* find_terminal_window() then focus_terminal(): <<found, focused>>
DiscoveryAnswers ==
    {<<w.found, w.found /\ FocusTerminal(f)>> : w \in FoundAnswers, f \in FocusAnswers}

\* one turn of the launch wait: <<exited, running, found, focused>>
PollAnswers ==
    {<<TRUE, "false", FALSE, FALSE>>} \cup {<<FALSE, a[1], a[2], a[3]>> : a \in ReadinessAnswers}

(***************************************************************************)
(* The record of one tool call: the answers of the first readiness check,  *)
(* the window discoveries counted (finds, up to one more than the retry    *)
(* budget), the post-launch attempts and the sleeps after them, the calls  *)
(* of launch_terminal and what it returned, the commands spawned, how many *)
(* failed and why the last did, the last two session operations, the calls *)
(* of paste_content, what the clipboard answered, the window and the       *)
(* rectangle of a capture, what focus_terminal met inside paste_content    *)
(* and the window operations it issued, the keys and clipboard writes of   *)
(* paste_content, the text it was given and what it returned, the settle   *)
(* delay and how many delays were taken, how many processes spawned by     *)
(* the call are alive and how many of them outlived terminate() and        *)
(* kill(), and the turns of the launch wait that looked for the window of  *)
(* the command being waited for.  keep names the part of the record a run      *)
(* keeps                                                                   *)
(* ("none": nothing is recorded); the parts are independent, so a run      *)
(* keeps one of them at a time.                                            *)
(***************************************************************************)
NoHistory(keep) ==
    [keep |-> keep, ensure |-> "none", running |-> "none", found |-> "none",
     focused |-> "none", finds |-> 0, post |-> 0, sleeps |-> 0, launches |-> 0,
     launched |-> "none", spawned |-> <<>>, failed |-> 0, cause |-> "none",
     last2 |-> <<"none", "none">>, pastes |-> 0,
     clipRead |-> FALSE, clipFault |-> "", clipText |-> <<>>,
     window |-> NoWindow, bbox |-> NoWindow, grabbed |-> FALSE,
     focusEnv |-> NoFocus, pasteFocus |-> "none", pasteResult |-> "none",
     settles |-> 0, requests |-> <<>>, keys |-> <<>>, content |-> <<>>,
     settle |-> 0, alive |-> 0, stubborn |-> 0, polls |-> 0]

Parts == {"budget", "order", "first", "launch", "paste"}

KeptFields(keep) ==
    {"ensure", "clipRead", "clipFault", "clipText", "window", "bbox", "grabbed"}
    \cup CASE keep = "budget" -> {"finds", "post", "sleeps"}
           [] keep = "order" -> {"last2", "pastes"}
           [] keep = "first" -> {"running", "found", "focused", "launches", "post"}
           [] keep = "launch" -> {"launches", "launched", "spawned", "failed", "cause",
                                  "alive", "stubborn", "polls"}
           [] keep = "paste" -> {"pastes", "focusEnv", "pasteFocus", "pasteResult", "requests",
                                 "keys", "content", "settle", "settles"}
           [] OTHER -> {}

YesNo(b) == IF b THEN "yes" ELSE "no"

Note(h, op) == [h EXCEPT !.last2 = <<h.last2[2], op>>]

Counted(n) == IF n > DEFAULT_RETRY_ATTEMPTS THEN n ELSE n + 1

SawRunning(h, answer) == Note(h, "running:" \o answer)

SawWindow(h, found) == [Note(h, "find:" \o YesNo(found)) EXCEPT !.finds = Counted(h.finds)]

SawFocus(h, ok) == Note(h, "focus:" \o YesNo(ok))

(***************************************************************************)
(* The state.                                                              *)
(*   pc        where run_server (and the tool it is awaiting) stands       *)
(*   lineKind  what the line of the current loop iteration was             *)
(*   prevMalformed  whether the line before it was unparseable            *)
(*   request   the parsed line of the current iteration                    *)
(*   response  the value handle_request returned, not yet printed          *)
(*   printed   the line printed in the current iteration                   *)
(*   nPrinted  how many lines the current iteration printed                *)
(*   tools     self.tools                                                  *)
(*   firstList the tools of the first tools/list result, and whether a     *)
(*             later tools/list has been answered since                    *)
(*   tool      the tool whose body has started in this iteration           *)
(*   touched   the external capabilities used in this iteration            *)
(*   cmd, waited, proc   launch_terminal: the command tried, the polls     *)
(*             waited, the state of self.terminal_process                  *)
(*   attempt   _ensure_terminal_available: the retry attempt               *)
(*   clipboard the system clipboard: the text paste_content left there, or *)
(*             OtherContent, anything at all, once another program may     *)
(*             have written it                                             *)
(*   hist      a record of what the tool call of this iteration did and    *)
(*             was answered by its environment; it is written only, and    *)
(*             only under a specification whose Init switches it on        *)
(* request, response, tool, touched, cmd, waited and attempt are locals of *)
(* one iteration: they are dropped when the iteration ends, printed and    *)
(* nPrinted when the next one starts.  proc is a field of the controller   *)
(* and outlives the iteration, and so does the clipboard, which the        *)
(* server shares with every other program.  controller.timeout, which                  *)
(* execute_pwsh_script sets and nothing reads, is not kept.                *)
(***************************************************************************)
VARIABLES pc, lineKind, prevMalformed, request, response, printed, nPrinted,
          tools, firstList, tool, touched, cmd, waited, proc, attempt, hist,
          clipboard

vars == <<pc, lineKind, prevMalformed, request, response, printed, nPrinted,
          tools, firstList, tool, touched, cmd, waited, proc, attempt, hist,
          clipboard>>

loopVars == <<lineKind, prevMalformed, request, printed, nPrinted>>
launchVars == <<cmd, waited, proc, attempt, hist, clipboard>>

\* the clipboard as any other program may have left it
OtherContent == [known |-> FALSE, text |-> <<>>]

commands == <<"wt.exe -p PowerShell", "wt.exe pwsh.exe", "wt.exe", "pwsh.exe", "powershell.exe">>

Init ==
    /\ pc = "read"
    /\ lineKind = "none"
    /\ prevMalformed = FALSE
    /\ request = NoRequest
    /\ response = NoResponse
    /\ printed = NoResponse
    /\ nPrinted = 0
    /\ tools = DefineTools
    /\ firstList = [seen |-> FALSE, again |-> FALSE, tools |-> <<>>]
    /\ tool = "none"
    /\ touched = {}
    /\ cmd = 0
    /\ waited = 0
    /\ proc = "none"
    /\ attempt = 0
    /\ hist = NoHistory("none")
    /\ clipboard = OtherContent

(***************************************************************************)
(* run_server: one line is read per iteration.                             *)
(***************************************************************************)
\* what every iteration starts from
StartIteration(kind, req) ==
    /\ prevMalformed' = (lineKind = "malformed")
    /\ lineKind' = kind
    /\ request' = req
    /\ printed' = NoResponse
    /\ nPrinted' = 0
    /\ UNCHANGED <<response, tools, firstList, tool, touched, launchVars>>

\* what every iteration ends with: its locals are dead
EndIteration ==
    /\ request' = NoRequest
    /\ response' = NoResponse
    /\ tool' = "none"
    /\ touched' = {}
    /\ cmd' = 0
    /\ waited' = 0
    /\ attempt' = 0
    /\ hist' = NoHistory(hist.keep)
    /\ UNCHANGED <<lineKind, prevMalformed, tools, firstList, proc, clipboard>>

\* readline() returns "": break
ReadEof ==
    /\ pc = "read"
    /\ pc' = "done"
    /\ StartIteration("eof", NoRequest)

\* the stripped line is empty: continue
ReadBlank ==
    /\ pc = "read"
    /\ pc' = "read"
    /\ StartIteration("blank", NoRequest)

\* json.loads raises JSONDecodeError
ReadMalformed ==
    /\ pc = "read"
    /\ pc' = "parse_error"
    /\ StartIteration("malformed", NoRequest)

\* json.loads returns a value, one of `lines`
ReadFrom(lines) ==
    /\ pc = "read"
    /\ \E req \in lines :
          StartIteration(IF req.top = "dict" THEN "object" ELSE "nonobject", req)
    /\ pc' = "dispatch"

ReadRequest == ReadFrom(Requests)

ParseErrorResponse == CreateErrorResponse(JInt(FALLBACK_ID), PARSE_ERROR, "Parse error")

\* the mutation: the parse error ends the loop
AfterParseErrorStop == "done"

\* except json.JSONDecodeError: ... continue
AfterParseError == "read"

\* print(json.dumps(error_response)) in the JSONDecodeError handler
WriteParseError ==
    /\ pc = "parse_error"
    /\ printed' = ParseErrorResponse
    /\ nPrinted' = nPrinted + 1
    /\ pc' = AfterParseError
    /\ EndIteration

\* print(json.dumps(response)) after handle_request returned
WriteResponse ==
    /\ pc = "write"
    /\ printed' = response
    /\ nPrinted' = nPrinted + 1
    /\ pc' = "read"
    /\ EndIteration

\* except Exception: ... continue, for what handle_request let through
SwallowException ==
    /\ pc = "escaped"
    /\ pc' = "read"
    /\ UNCHANGED <<printed, nPrinted>>
    /\ EndIteration

\* KeyboardInterrupt, or the cancellation asyncio.run turns the signal into:
\* neither is an Exception, so no handler of the call under way catches it;
\* the stack is unwound to run_server, which ends.  request and tool stay,
\* to tell what was under way.
Interrupt ==
    /\ pc # "done"
    /\ pc' = "done"
    /\ lineKind' = "interrupt"
    /\ response' = NoResponse
    /\ touched' = {}
    /\ cmd' = 0
    /\ waited' = 0
    /\ attempt' = 0
    /\ hist' = NoHistory(hist.keep)
    /\ UNCHANGED <<prevMalformed, request, printed, nPrinted, tools, firstList, tool, proc,
                   clipboard>>

(***************************************************************************)
(* handle_request.                                                         *)
(***************************************************************************)
IsMethod(req, name) == req.method = JTok(name)

\* a value that is not a dict has no .get: the AttributeError is raised in the
\* try block and again by request.get("id", 1) in the except block
HandleNotADict ==
    /\ pc = "dispatch"
    /\ request.top # "dict"
    /\ pc' = "escaped"
    /\ UNCHANGED <<loopVars, response, tools, firstList, tool, touched, launchVars>>

HandleInitialize ==
    /\ pc = "dispatch"
    /\ request.top = "dict"
    /\ IsMethod(request, "initialize")
    /\ response' = HandleInitializeResponse(RequestId(request))
    /\ pc' = "write"
    /\ UNCHANGED <<loopVars, tools, firstList, tool, touched, launchVars>>

HandleToolsList ==
    /\ pc = "dispatch"
    /\ request.top = "dict"
    /\ IsMethod(request, "tools/list")
    /\ response' = HandleToolsListResponse(RequestId(request), tools)
    /\ firstList' = IF firstList.seen THEN [firstList EXCEPT !.again = TRUE]
                    ELSE [seen |-> TRUE, again |-> FALSE, tools |-> response'.result.tools]
    /\ pc' = "write"
    /\ UNCHANGED <<loopVars, tools, tool, touched, launchVars>>

UnknownMethodResponse(request_id) ==
    CreateErrorResponse(request_id, METHOD_NOT_FOUND, "Unknown method")

HandleUnknownMethod ==
    /\ pc = "dispatch"
    /\ request.top = "dict"
    /\ ~IsMethod(request, "initialize")
    /\ ~IsMethod(request, "tools/list")
    /\ ~IsMethod(request, "tools/call")
    /\ response' = UnknownMethodResponse(RequestId(request))
    /\ pc' = "write"
    /\ UNCHANGED <<loopVars, tools, firstList, tool, touched, launchVars>>

\* where a tool body starts
ToolStart(tool_name) ==
    CASE tool_name = "execute_pwsh_script" -> "execute"
      [] tool_name = "get_clipboard" -> "clipboard"
      [] tool_name = "capture_pwsh_response" -> "capture"

\* tools/call up to the start of the tool body; an exception that leaves
\* _handle_tools_call is caught by handle_request: -32603 with str(e)
HandleToolsCall ==
    /\ pc = "dispatch"
    /\ request.top = "dict"
    /\ IsMethod(request, "tools/call")
    /\ LET out == HandleToolsCallEntry(request, tools)
       IN  /\ response' =
                CASE out.kind = "response" -> out.response
                  [] out.kind = "raise" ->
                        CreateErrorResponse(RequestId(request), INTERNAL_ERROR,
                                            out.response.message)
                  [] out.kind = "run" -> NoResponse
           /\ tool' = IF out.kind = "run" THEN out.tool ELSE "none"
           /\ pc' = IF out.kind = "run" THEN ToolStart(out.tool) ELSE "write"
    /\ UNCHANGED <<loopVars, tools, firstList, touched, launchVars>>


(***************************************************************************)
(* Tool bodies.  An exception a tool raises reaches _handle_tools_call,    *)
(* which answers -32603.                                                   *)
(***************************************************************************)
ToolError(message) == CreateErrorResponse(RequestId(request), INTERNAL_ERROR, message)

\* the part of the record h that the run keeps
Keep(h) ==
    IF hist.keep = "none" THEN hist
    ELSE [field \in DOMAIN hist |->
            IF field \in KeptFields(hist.keep) THEN h[field] ELSE hist[field]]

Step(newpc, newresponse, newtouched, c, w, p, a, h) ==
    /\ pc' = newpc
    /\ response' = newresponse
    /\ touched' = newtouched
    /\ cmd' = c
    /\ waited' = w
    /\ proc' = p
    /\ attempt' = a
    /\ hist' = Keep(h)

ExecScript == Get(request.script, JStr(<<>>))
ExecTimeout == Get(request.timeout, JInt(default_timeout))

\* execute_pwsh_script up to the call of _ensure_terminal_available
ExecuteBegin ==
    /\ pc = "execute"
    /\ IF ~Truthy(ExecScript) \/ (ExecScript.k = "str" /\ ScriptIsBlank(ExecScript.s))
       THEN Step("write", ToolError("Empty script provided"),
                 touched, cmd, waited, proc, attempt, hist)
       ELSE IF ExecScript.k # "str"
       THEN Step("write", ToolError("Script execution failed: AttributeError"),
                 touched, cmd, waited, proc, attempt, hist)
       ELSE Step("ensure", NoResponse, touched, cmd, waited, proc, attempt, hist)
    /\ UNCHANGED <<loopVars, tools, firstList, tool, clipboard>>

\* the mutation: the result of focus_terminal() is not looked at
FirstCheckReadyNoFocus(running, found, focused) == running /\ found

\* if is_terminal_running() and find_terminal_window(): if focus_terminal(): return
FirstCheckReady(running, found, focused) == running /\ found /\ focused

\* _ensure_terminal_available: the first check; `and` asks for the window only
\* of a running terminal, and focus is tried only on a window found
EnsureFirstCheck ==
    /\ pc = "ensure"
    /\ \E a \in ReadinessAnswers :
          LET running == a[1]
              isRunning == running = "true"
              found == a[2]
              focused == a[3]
              asked == {"process"} \cup (IF isRunning THEN {"window"} ELSE {})
                            \cup (IF isRunning /\ found THEN {"focus"} ELSE {})
              h1 == [SawRunning(hist, running) EXCEPT !.ensure = "running", !.running = running]
              h2 == IF isRunning THEN [SawWindow(h1, found) EXCEPT !.found = YesNo(found)] ELSE h1
              h3 == IF isRunning /\ found
                    THEN [SawFocus(h2, focused) EXCEPT !.focused = YesNo(focused)] ELSE h2
          IN  IF running = "raise"
              THEN Step("write", ToolError("Script execution failed: process inspection"),
                        touched \cup asked, cmd, waited, proc, attempt,
                        [h1 EXCEPT !.ensure = "fault"])
              ELSE IF FirstCheckReady(isRunning, found, focused)
              THEN Step("paste", NoResponse, touched \cup asked, cmd, waited, proc, attempt,
                        [h3 EXCEPT !.ensure = "ready"])
              ELSE Step("spawn", NoResponse, touched \cup asked, 1, 0, proc, attempt,
                        [h3 EXCEPT !.launches = @ + 1])
    /\ UNCHANGED <<loopVars, tools, firstList, tool, clipboard>>

\* the mutation: every other command of the list is skipped
NextCommandSkipping(c) == c + 2

\* for cmd in commands: the command after commands[c]
NextCommand(c) == c + 1

\* launch_terminal: commands[cmd] has failed for `cause`; the next command of
\* the list, or False after the last, which makes _ensure_terminal_available
\* raise TerminalNotAvailableError
NextCandidate(t, p, h, cause) ==
    LET h1 == [h EXCEPT !.failed = @ + 1, !.cause = cause, !.polls = 0]
    IN  IF cmd < Len(commands)
        THEN Step("spawn", NoResponse, t, NextCommand(cmd), 0, p, attempt, h1)
        ELSE Step("write", ToolError("Failed to launch Windows Terminal"), t, cmd, 0, p,
                  attempt, [h1 EXCEPT !.launched = "false", !.ensure = "unavailable"])

\* launch_terminal: Popen of commands[cmd] and the immediate poll()
LaunchSpawn ==
    /\ pc = "spawn"
    /\ \E o \in {"not_found", "error", "exited", "alive"} :
          LET h1 == [Note(hist, "spawn") EXCEPT !.spawned = Append(@, cmd), !.polls = 0]
          IN  IF o = "alive"
              THEN Step("poll", NoResponse, touched \cup {"spawn"}, cmd, 0, "alive", attempt,
                        [h1 EXCEPT !.alive = @ + 1])
              ELSE IF o = "exited"
              THEN NextCandidate(touched \cup {"spawn"}, "exited", h1, "exited_immediately")
              ELSE NextCandidate(touched \cup {"spawn"}, proc, h1, "raised")
    /\ UNCHANGED <<loopVars, tools, firstList, tool, clipboard>>

\* the mutation: when the wait has run out it starts over
WaitedAgain(t, h) ==
    IF waited + 1 < max_wait * polls_per_second
    THEN Step("poll", NoResponse, t, cmd, waited + 1, "alive", attempt, h)
    ELSE Step("poll", NoResponse, t, cmd, 0, "alive", attempt, [h EXCEPT !.polls = 0])

\* time.sleep(poll_interval); waited += poll_interval; then the loop test
Waited(t, h) ==
    IF waited + 1 < max_wait * polls_per_second
    THEN Step("poll", NoResponse, t, cmd, waited + 1, "alive", attempt, h)
    ELSE Step("cleanup", NoResponse, t, cmd, 0, "alive", attempt, h)

\* launch_terminal: one turn of `while waited < max_wait`
LaunchPoll ==
    /\ pc = "poll"
    /\ \E a \in PollAnswers :
          LET exited == a[1]
              running == a[2]
              isRunning == running = "true"
              found == a[3]
              h1 == [SawRunning(hist, running) EXCEPT !.polls = @ + 1]
              h2 == SawWindow(h1, found)
              h3 == SawFocus(h2, a[4])
          IN  IF exited
              THEN Step("cleanup", NoResponse, touched, cmd, 0, "exited", attempt,
                        [hist EXCEPT !.alive = @ - 1])
              ELSE IF running = "raise"
              THEN NextCandidate(touched \cup {"process"}, "alive", h1, "raised")
              ELSE IF ~isRunning
              THEN Waited(touched \cup {"process"}, h1)
              ELSE IF ~found
              THEN Waited(touched \cup {"process", "window"}, h2)
              ELSE Step("retry", NoResponse, touched \cup {"process", "window", "focus"},
                        cmd, 0, "alive", 0, [h3 EXCEPT !.launched = "true", !.polls = 0])
    /\ UNCHANGED <<loopVars, tools, firstList, tool, clipboard>>

\* launch_terminal: after the wait, terminate (then kill) a process still running
LaunchCleanup ==
    /\ pc = "cleanup"
    /\ IF proc = "exited"
       THEN NextCandidate(touched, "exited", hist, "exited_in_wait")
       ELSE \E o \in {"exited", "terminated", "killed", "survived"} :
               IF o = "survived"
               THEN NextCandidate(touched, "alive", [hist EXCEPT !.stubborn = @ + 1],
                                  "no_window")
               ELSE NextCandidate(touched, "exited", [hist EXCEPT !.alive = @ - 1],
                                  "no_window")
    /\ UNCHANGED <<loopVars, tools, firstList, tool, clipboard>>

\* the mutation: with the attempts used up, the terminal is launched again
AgainRelaunching(t, h) ==
    LET h1 == [h EXCEPT !.sleeps = @ + 1]
    IN  IF attempt + 1 < DEFAULT_RETRY_ATTEMPTS
        THEN Step("retry", NoResponse, t, cmd, waited, proc, attempt + 1, h1)
        ELSE Step("spawn", NoResponse, t, 1, 0, proc, 0, [h1 EXCEPT !.launches = @ + 1])

\* the mutation: the loop runs one attempt more than the budget
AgainOnceMore(t, h) ==
    LET h1 == [h EXCEPT !.sleeps = @ + 1]
    IN  IF attempt + 1 <= DEFAULT_RETRY_ATTEMPTS
        THEN Step("retry", NoResponse, t, cmd, waited, proc, attempt + 1, h1)
        ELSE Step("write", ToolError("Terminal window not available after multiple attempts"),
                  t, cmd, waited, proc, attempt + 1, [h1 EXCEPT !.ensure = "unavailable"])

\* asyncio.sleep(DEFAULT_RETRY_DELAY), then the next attempt or the error
Again(t, h) ==
    LET h1 == [h EXCEPT !.sleeps = @ + 1]
    IN  IF attempt + 1 < DEFAULT_RETRY_ATTEMPTS
        THEN Step("retry", NoResponse, t, cmd, waited, proc, attempt + 1, h1)
        ELSE Step("write", ToolError("Terminal window not available after multiple attempts"),
                  t, cmd, waited, proc, attempt + 1, [h1 EXCEPT !.ensure = "unavailable"])

\* the mutation: a window found is taken as ready, focused or not
RetryReadyNoFocus(found, focused) == found

\* if find_terminal_window(): if focus_terminal(): return
RetryReady(found, focused) == found /\ focused

\* _ensure_terminal_available: one turn of `for attempt in range(...)`
RetryAttempt ==
    /\ pc = "retry"
    /\ \E a \in DiscoveryAnswers :
          LET found == a[1]
              focused == a[2]
              asked == {"window"} \cup (IF found THEN {"focus"} ELSE {})
              h1 == [SawWindow(hist, found) EXCEPT !.post = @ + 1]
              h2 == IF found THEN SawFocus(h1, focused) ELSE h1
          IN  IF RetryReady(found, focused)
              THEN Step("paste", NoResponse, touched \cup asked, cmd, waited, proc, attempt,
                        [h2 EXCEPT !.ensure = "ready"])
              ELSE Again(touched \cup asked, h2)
    /\ UNCHANGED <<loopVars, tools, firstList, tool, clipboard>>

\* is_multiline = len(lines) > 1
IsMultiline(script) == Len(ScriptLines(script)) > 1

\* script_type
ScriptType(is_multiline) == IF is_multiline THEN "multi-line script" ELSE "single command"

\* raise ScriptExecutionError(f"Failed to paste {script_type}")
PasteError(script) == ToolError("Failed to paste " \o ScriptType(IsMultiline(script)))

\* the mutation: the clipboard is written before the interrupt key is sent
PasteKeysCopyFirst(execute, fault) ==
    LET all == <<"copy", "ctrl+c", "ctrl+v">> \o (IF execute THEN <<"enter">> ELSE <<>>)
        upto == CASE fault = "interrupt_key" -> 2
                  [] fault = "copy" -> 1
                  [] fault = "paste_key" -> 3
                  [] OTHER -> Len(all)
    IN  SubSeq(all, 1, upto)

\* paste_content after focus_terminal() returned True: the keys sent and the
\* clipboard write, up to and with the one that raised
PasteKeys(execute, fault) ==
    LET all == <<"ctrl+c", "copy", "ctrl+v">> \o (IF execute THEN <<"enter">> ELSE <<>>)
        upto == CASE fault = "interrupt_key" -> 1
                  [] fault = "copy" -> 2
                  [] fault = "paste_key" -> 3
                  [] OTHER -> Len(all)
    IN  SubSeq(all, 1, upto)

\* the mutation: the text is trimmed before it is copied
HeldStripped(text) ==
    IF hist.keep = "paste" THEN [known |-> TRUE, text |-> Strip(text)] ELSE OtherContent

\* the clipboard after pyperclip.copy(text) returned; it is followed only by
\* a run that records the pastes, any other run takes it for anyone's
Held(text) ==
    IF hist.keep = "paste" THEN [known |-> TRUE, text |-> text] ELSE OtherContent

\* the clipboard after the operations `keys`: a copy that raised may have
\* emptied or half written it
ClipboardAfter(keys, fault, text) ==
    IF \A i \in 1..Len(keys) : keys[i] # "copy" THEN clipboard
    ELSE IF fault = "copy" THEN OtherContent
    ELSE Held(text)

\* paste_content(script, execute=True): focus, ctrl+c, copy, ctrl+v, enter; any
\* exception makes it return False, and execute_pwsh_script raise
PasteContent ==
    /\ pc = "paste"
    /\ \E f \in FocusAnswers,
          fault \in {"none", "interrupt_key", "copy", "paste_key", "enter"} :
          LET focused == FocusTerminal(f)
              keys == IF focused THEN PasteKeys(TRUE, fault) ELSE <<>>
              wrote == \E i \in 1..Len(keys) : keys[i] = "copy"
              h1 == [SawFocus(hist, focused) EXCEPT !.pastes = @ + 1, !.focusEnv = f,
                                                   !.pasteFocus = YesNo(focused),
                                                   !.requests = FocusRequests(f),
                                                   !.keys = keys, !.content = ExecScript.s]
          IN  /\ clipboard' = ClipboardAfter(keys, fault, ExecScript.s)
              /\ IF ~focused
                 THEN Step("write", PasteError(ExecScript.s), touched \cup {"focus"},
                           cmd, waited, proc, attempt, [h1 EXCEPT !.pasteResult = "false"])
                 ELSE IF fault = "none"
                 THEN Step("settle", NoResponse,
                           touched \cup {"focus", "input", "clipboard_write"},
                           cmd, waited, proc, attempt, [h1 EXCEPT !.pasteResult = "true"])
                 ELSE Step("write", PasteError(ExecScript.s),
                           touched \cup {"focus", "input"}
                               \cup (IF wrote THEN {"clipboard_write"} ELSE {}),
                           cmd, waited, proc, attempt, [h1 EXCEPT !.pasteResult = "false"])
    /\ UNCHANGED <<loopVars, tools, firstList, tool>>

\* the mutation: every script is given the delay of a single command
ExecutionDelaySingle(is_multiline) == SINGLELINE_EXECUTION_DELAY

ExecutionDelay(is_multiline) ==
    IF is_multiline THEN MULTILINE_EXECUTION_DELAY ELSE SINGLELINE_EXECUTION_DELAY

ExecutePayload(script, timeout) ==
    LET lines == ScriptLines(script)
        is_multiline == IsMultiline(script)
    IN  [NoPayload EXCEPT !.tool = "execute_pwsh_script", !.success = TRUE,
                          !.lines_count = Len(lines), !.is_multiline = is_multiline,
                          !.script_type = ScriptType(is_multiline),
                          !.timeout_used = timeout]

\* the settle delay and the success result
SettleAndReturn ==
    /\ pc = "settle"
    /\ Step("write", ToolResponse(RequestId(request), ExecutePayload(ExecScript.s, ExecTimeout)),
            touched, cmd, waited, proc, attempt,
            [hist EXCEPT !.settle = ExecutionDelay(IsMultiline(ExecScript.s)),
                         !.settles = @ + 1])
    /\ UNCHANGED <<loopVars, tools, firstList, tool, clipboard>>

FailurePayload(tool_name, message) ==
    [NoPayload EXCEPT !.tool = tool_name, !.success = FALSE, !.error = message]

\* the mutation: the length reported is that of the stripped text
ClipboardPayloadStripped(text) ==
    [NoPayload EXCEPT !.tool = "get_clipboard", !.success = TRUE, !.content = text,
                      !.length = Len(Strip(text)), !.is_empty = (Len(Strip(text)) = 0)]

ClipboardPayload(text) ==
    [NoPayload EXCEPT !.tool = "get_clipboard", !.success = TRUE, !.content = text,
                      !.length = Len(text), !.is_empty = (Len(text) = 0)]

\* what pyperclip.paste() may return: the text held, or anything once another
\* program may have written
ClipboardTexts == IF clipboard.known THEN {clipboard.text} ELSE StrSet(MaxLen)

\* get_clipboard: pyperclip.paste() returns a text or raises
GetClipboard ==
    /\ pc = "clipboard"
    /\ \E raises \in BOOLEAN, text \in ClipboardTexts, fault \in ClipboardFaults :
          IF raises
          THEN Step("write",
                    ToolResponse(RequestId(request),
                        FailurePayload("get_clipboard",
                                       "Failed to get clipboard content: " \o fault)),
                    touched \cup {"clipboard_read"}, cmd, waited, proc, attempt,
                    [hist EXCEPT !.clipRead = TRUE, !.clipFault = fault])
          ELSE Step("write", ToolResponse(RequestId(request), ClipboardPayload(text)),
                    touched \cup {"clipboard_read"}, cmd, waited, proc, attempt,
                    [hist EXCEPT !.clipRead = TRUE, !.clipText = text])
    /\ UNCHANGED <<loopVars, tools, firstList, tool, clipboard>>

\* the mutation: a height the title bar uses up is clamped to one row
CaptureRectangleClamped(w, exclude_titlebar) ==
    LET top == IF Truthy(exclude_titlebar) THEN w.top + title_bar_height ELSE w.top
        height == IF Truthy(exclude_titlebar) THEN w.height - title_bar_height ELSE w.height
    IN  IF ~w.found THEN NoWindow
        ELSE IF w.width <= 0 THEN NoWindow
        ELSE [found |-> TRUE, left |-> w.left, top |-> top, width |-> w.width,
              height |-> IF height <= 0 THEN 1 ELSE height]

\* capture_terminal_output: the rectangle grabbed, found FALSE for None
CaptureRectangle(w, exclude_titlebar) ==
    LET top == IF Truthy(exclude_titlebar) THEN w.top + title_bar_height ELSE w.top
        height == IF Truthy(exclude_titlebar) THEN w.height - title_bar_height ELSE w.height
    IN  IF ~w.found THEN NoWindow
        ELSE IF w.width <= 0 \/ height <= 0 THEN NoWindow
        ELSE [found |-> TRUE, left |-> w.left, top |-> top, width |-> w.width,
              height |-> height]

CapturePayload(rect, save_path, exclude_titlebar) ==
    [NoPayload EXCEPT !.tool = "capture_pwsh_response", !.success = TRUE,
                      !.width = rect.width, !.height = rect.height,
                      !.exclude_titlebar = exclude_titlebar,
                      !.custom_path = (save_path.k # "null")]

\* capture_pwsh_response: find the window, grab, resolve the path, save
CapturePwshResponse ==
    /\ pc = "capture"
    /\ LET save_path == Get(request.save_path, JNull)
           exclude_titlebar == Get(request.exclude_titlebar, JBool(TRUE))
       IN  \E w \in WindowAnswers, grabFails \in BOOLEAN, saveFails \in BOOLEAN :
              LET rect == CaptureRectangle(w, exclude_titlebar)
                  h1 == [SawWindow(hist, w.found) EXCEPT !.window = w, !.bbox = rect,
                                                  !.grabbed = rect.found]
              IN  IF ~rect.found \/ grabFails
                  THEN Step("write",
                            ToolError("Failed to capture terminal window"),
                            touched \cup {"window"} \cup (IF rect.found THEN {"screen"} ELSE {}),
                            cmd, waited, proc, attempt, h1)
                  ELSE IF Truthy(save_path) /\ save_path.k # "str"
                  THEN Step("write",
                            ToolResponse(RequestId(request),
                                FailurePayload("capture_pwsh_response",
                                               "Screenshot capture failed: AttributeError")),
                            touched \cup {"window", "screen"}, cmd, waited, proc, attempt, h1)
                  ELSE IF saveFails
                  THEN Step("write",
                            ToolResponse(RequestId(request),
                                FailurePayload("capture_pwsh_response",
                                               "Screenshot capture failed: OSError")),
                            touched \cup {"window", "screen", "file"},
                            cmd, waited, proc, attempt, h1)
                  ELSE Step("write",
                            ToolResponse(RequestId(request),
                                CapturePayload(rect, save_path, exclude_titlebar)),
                            touched \cup {"window", "screen", "file"},
                            cmd, waited, proc, attempt, h1)
    /\ UNCHANGED <<loopVars, tools, firstList, tool, clipboard>>

(***************************************************************************)
(* The specification.                                                      *)
(***************************************************************************)
Next ==
    \/ ReadEof
    \/ ReadBlank
    \/ ReadMalformed
    \/ ReadRequest
    \/ WriteParseError
    \/ WriteResponse
    \/ SwallowException
    \/ Interrupt
    \/ HandleNotADict
    \/ HandleInitialize
    \/ HandleToolsList
    \/ HandleUnknownMethod
    \/ HandleToolsCall
    \/ ExecuteBegin
    \/ EnsureFirstCheck
    \/ LaunchSpawn
    \/ LaunchPoll
    \/ LaunchCleanup
    \/ RetryAttempt
    \/ PasteContent
    \/ SettleAndReturn
    \/ GetClipboard
    \/ CapturePwshResponse

Spec == Init /\ [][Next]_vars

(***************************************************************************)
(* The tool calls alone, with the record of each call kept.                *)
(***************************************************************************)
ToolCall(id, name, script, exclude_titlebar) ==
    Req("dict", id, JTok("tools/call"), JDict(0), JTok(name), JDict(0), script, Absent,
        Absent, exclude_titlebar)

ToolRequests ==
    {ToolCall(JInt(1), "execute_pwsh_script", JStr(<<"a">>), Absent),
     ToolCall(JInt(1), "execute_pwsh_script", JStr(<<"a", NL>>), Absent),
     ToolCall(JInt(1), "execute_pwsh_script", JStr(<<"a", NL, "a">>), Absent),
     ToolCall(JInt(1), "get_clipboard", Absent, Absent)}
    \cup {ToolCall(JInt(1), "capture_pwsh_response", Absent, et) :
            et \in {Absent, JBool(TRUE), JBool(FALSE)}}

ReadToolCall == ReadFrom(ToolRequests)

ToolInit ==
    /\ pc = "read"
    /\ lineKind = "none"
    /\ prevMalformed = FALSE
    /\ request = NoRequest
    /\ response = NoResponse
    /\ printed = NoResponse
    /\ nPrinted = 0
    /\ tools = DefineTools
    /\ firstList = [seen |-> FALSE, again |-> FALSE, tools |-> <<>>]
    /\ tool = "none"
    /\ touched = {}
    /\ cmd = 0
    /\ waited = 0
    /\ proc = "none"
    /\ attempt = 0
    /\ \E keep \in Parts : hist = NoHistory(keep)
    /\ clipboard = OtherContent

\* another program, or the script the terminal ran, writes the clipboard
OtherWriter ==
    /\ clipboard.known
    /\ clipboard' = OtherContent
    /\ UNCHANGED <<pc, loopVars, response, tools, firstList, tool, touched, cmd, waited,
                   proc, attempt, hist>>

ToolNext ==
    \/ ReadToolCall
    \/ ReadEof
    \/ WriteResponse
    \/ HandleToolsCall
    \/ ExecuteBegin
    \/ EnsureFirstCheck
    \/ LaunchSpawn
    \/ LaunchPoll
    \/ LaunchCleanup
    \/ RetryAttempt
    \/ PasteContent
    \/ SettleAndReturn
    \/ GetClipboard
    \/ CapturePwshResponse
    \/ OtherWriter

ToolSpec == ToolInit /\ [][ToolNext]_vars

\* the same with the progress of a call under way: _ensure_terminal_available
\* and launch_terminal are run by the one task of the event loop, every
\* external call they make returns or raises, and every sleep ends, so the
\* step that comes next in them is taken
EnsureProgress ==
    /\ WF_vars(EnsureFirstCheck)
    /\ WF_vars(LaunchSpawn)
    /\ WF_vars(LaunchPoll)
    /\ WF_vars(LaunchCleanup)
    /\ WF_vars(RetryAttempt)

EnsureSpec == ToolInit /\ [][ToolNext]_vars /\ EnsureProgress

(***************************************************************************)
(* The calls of execute_pwsh_script alone, over every script of up to      *)
(* MaxScript characters.                                                   *)
(***************************************************************************)
\* longest script in characters
MaxScript == 4

ScriptRequests ==
    {ToolCall(JInt(1), "execute_pwsh_script", JStr(s), Absent) : s \in StrSet(MaxScript)}

ReadScriptCall == ReadFrom(ScriptRequests)

ScriptNext ==
    \/ ReadScriptCall
    \/ ReadEof
    \/ WriteResponse
    \/ HandleToolsCall
    \/ ExecuteBegin
    \/ EnsureFirstCheck
    \/ LaunchSpawn
    \/ LaunchPoll
    \/ LaunchCleanup
    \/ RetryAttempt
    \/ PasteContent
    \/ SettleAndReturn

ScriptSpec == Init /\ [][ScriptNext]_vars


(***************************************************************************)
(* Properties of the dispatcher and the server loop.                       *)
(***************************************************************************)
Returned == pc = "write" /\ lineKind = "object"

IsToolsCall(req) == req.top = "dict" /\ req.method = JTok("tools/call")

CallsTool(req, name) ==
    IsToolsCall(req) /\ req.params.k = "dict" /\ req.name = JTok(name)

\* C1: the response handle_request returns for a request object carries the
\* request's id, whatever the method and the outcome, and the id 1 when the
\* request has no id field.
C1_ResponseEchoesId ==
    Returned =>
        /\ response.tag \in {"result", "error"}
        /\ response.id = (IF request.id.k = "absent" THEN JInt(1) ELSE request.id)

\* C1, its case: an error raised inside a tool, answered with the request's id 2
C1_Witness ==
    /\ Returned
    /\ tool = "execute_pwsh_script"
    /\ response.tag = "error"
    /\ request.id = JInt(2)
    /\ response.id = JInt(2)

\* C2: handle_request is total and non-throwing: no parsed JSON value makes it
\* propagate an exception to the read loop, and what it returns is a result or
\* an error with a code.
C2_HandleRequestNeverThrows ==
    /\ pc # "escaped"
    /\ (pc = "write" => response.tag \in {"result", "error"})

\* C3: when the loop is about to read again, the line just handled has been
\* answered with exactly one printed line if it was not blank (an object, any
\* other JSON value, unparseable text), and with none if it was blank.
C3_OneResponsePerLine ==
    pc = "read" =>
        /\ lineKind \in {"object", "nonobject", "malformed"} => nPrinted = 1
        /\ lineKind = "blank" => nPrinted = 0

\* C4: an unparseable line is answered with error -32700 and id 1 and leaves
\* the loop reading; the well-formed line after it gets one response, which is
\* not a parse error.
C4_ParseErrorKeepsLoop ==
    /\ lineKind = "malformed" => pc \in {"parse_error", "read"}
    /\ (lineKind = "malformed" /\ pc = "read") =>
            /\ nPrinted = 1
            /\ printed.tag = "error"
            /\ printed.code = -32700
            /\ printed.id = JInt(1)
    /\ (prevMalformed /\ lineKind = "object" /\ pc = "read") =>
            /\ nPrinted = 1
            /\ printed.tag \in {"result", "error"}
            /\ printed.code # -32700

\* C4, its case: a well-formed line read after an unparseable one was answered
\* with a result
C4_Witness ==
    /\ prevMalformed
    /\ lineKind = "object"
    /\ pc = "read"
    /\ printed.tag = "result"

UnknownMethodRequest(req) ==
    /\ req.top = "dict"
    /\ req.method \notin {JTok("initialize"), JTok("tools/list"), JTok("tools/call")}

UnknownToolRequest(req) ==
    /\ IsToolsCall(req)
    /\ req.params.k = "dict"
    /\ req.name.k = "str"
    /\ req.name.t # ""
    /\ req.name.t \notin {"execute_pwsh_script", "get_clipboard", "capture_pwsh_response"}

\* C5: a request with any other method, or none, and a tools/call naming a tool
\* that is not in the registry are answered with error -32601, and no tool
\* body and no external capability is reached.
C5_UnknownMethodOrTool ==
    (lineKind = "object" /\ (UnknownMethodRequest(request) \/ UnknownToolRequest(request))) =>
        /\ pc \in {"dispatch", "write"}
        /\ tool = "none"
        /\ touched = {}
        /\ pc = "write" => (response.tag = "error" /\ response.code = -32601)

\* C5, its case: a tools/call naming a tool that is not registered, answered
C5_Witness ==
    /\ pc = "write"
    /\ UnknownToolRequest(request)
    /\ response.code = -32601

\* the arguments of a call satisfy the declared inputSchema of the tool
TypeMatches(v, p) ==
    CASE p.type = "string" -> v.k = "str" /\ Len(v.s) >= p.minLength
      [] p.type = "integer" ->
            v.k = "int" /\ (p.ranged => (v.n >= p.minimum /\ v.n <= p.maximum))
      [] p.type = "boolean" -> v.k = "bool"

SatisfiesSchema(req, def) ==
    /\ Get(req.arguments, JDict(0)).k = "dict"
    /\ \A i \in 1..Len(def.required) : ArgOf(req, def.required[i]).k # "absent"
    /\ \A i \in 1..Len(def.properties) :
          LET v == ArgOf(req, def.properties[i].name)
          IN  v.k # "absent" => TypeMatches(v, def.properties[i])

SchemaOf(name) == CHOOSE d \in {DefineTools[i] : i \in 1..Len(DefineTools)} : d.name = name

KnownTools == {"execute_pwsh_script", "get_clipboard", "capture_pwsh_response"}

InvalidParamsRequest(req) ==
    /\ IsToolsCall(req)
    /\ \/ req.params.k # "dict"
       \/ ~Truthy(Get(req.name, JNull))
       \/ /\ req.name.k = "str"
          /\ req.name.t \in KnownTools
          /\ ~SatisfiesSchema(req, SchemaOf(req.name.t))

\* C6: a tools/call whose params are missing or invalid (no tool name, params
\* or arguments that are not an object, a required argument absent, an
\* argument of the wrong type or out of range) is answered with -32602.
C6_InvalidParamsCode ==
    (Returned /\ InvalidParamsRequest(request)) =>
        (response.tag = "error" /\ response.code = -32602)

ListedNames(ts) == [i \in 1..Len(ts) |-> ts[i].name]

\* C7: every tools/list result holds the three definitions execute_pwsh_script,
\* get_clipboard, capture_pwsh_response in that order, equal to those of the
\* first tools/list result, and the registry stays what was first listed.
C7_ToolsListStable ==
    /\ ListedNames(tools) = <<"execute_pwsh_script", "get_clipboard", "capture_pwsh_response">>
    /\ firstList.seen => tools = firstList.tools
    /\ (pc = "write" /\ response.result.what = "tools") =>
            /\ firstList.seen
            /\ response.result.tools = firstList.tools
            /\ ListedNames(response.result.tools) =
                    <<"execute_pwsh_script", "get_clipboard", "capture_pwsh_response">>

\* C7, its case: a tools/list answered after an earlier tools/list
C7_Witness ==
    /\ pc = "write"
    /\ response.result.what = "tools"
    /\ firstList.again

\* C8: a tool body has started only if the call's arguments satisfy every
\* constraint of that tool's inputSchema.
C8_SchemaEnforcedBeforeBody ==
    tool # "none" => SatisfiesSchema(request, SchemaOf(tool))

IsWhitespace(s) == \A i \in 1..Len(s) : s[i] \in {" ", "\n"}

BlankScriptCall(req) ==
    /\ CallsTool(req, "execute_pwsh_script")
    /\ req.arguments.k = "dict"
    /\ req.script.k = "str"
    /\ IsWhitespace(req.script.s)

SessionPcs == {"ensure", "spawn", "poll", "cleanup", "retry", "paste", "settle"}

\* C9: an execute_pwsh_script call whose script is empty or only whitespace
\* never reaches the session state machine, uses no external capability, and
\* is answered with an error.
C9_BlankScriptFailsFast ==
    (lineKind = "object" /\ BlankScriptCall(request)) =>
        /\ pc \notin SessionPcs
        /\ touched = {}
        /\ pc = "write" => response.tag = "error"

\* C9, its case: a whitespace-only script answered with the validation error
C9_Witness ==
    /\ pc = "write"
    /\ BlankScriptCall(request)
    /\ request.script.s # <<>>
    /\ response.tag = "error"
    /\ response.code = -32602

BadTimeout(v) == v.k # "absent" /\ (v.k # "int" \/ v.n < 1 \/ v.n > 300)

\* C10: an execute_pwsh_script call whose timeout is not an integer (a
\* boolean, a string, a non-integral number) or is an integer outside 1..300
\* never starts the tool body and is answered with -32602, whatever the text
\* of the script (any text, or no script at all); with no timeout the call
\* is not rejected for its timeout.
C10_BadTimeoutRejected ==
    /\ (lineKind = "object" /\ CallsTool(request, "execute_pwsh_script")
            /\ request.arguments.k = "dict" /\ request.script.k \in {"str", "absent"}
            /\ BadTimeout(request.timeout)) =>
            /\ tool = "none"
            /\ pc = "write" => (response.tag = "error" /\ response.code = -32602)
    /\ (Returned /\ CallsTool(request, "execute_pwsh_script")
            /\ request.arguments.k = "dict" /\ request.timeout.k = "absent") =>
            response.message # "Timeout must be an integer between 1 and 300 seconds"

(***************************************************************************)
(* Properties of the tools and of the readiness machine.                   *)
(***************************************************************************)
Succeeded(name) ==
    /\ pc = "write"
    /\ response.tag = "result"
    /\ response.result.payload.tool = name
    /\ response.result.payload.success

\* the positions of s that hold the first non-whitespace character of a line
LineStarts(s) ==
    {i \in 1..Len(s) :
        /\ s[i] \notin {" ", NL}
        /\ \A j \in 1..(i - 1) : (\A k \in j..(i - 1) : s[k] # NL) => s[j] = " "}

BlankLines == {<<>>, <<" ">>, <<" ", " ">>}

\* padded is s with one blank or whitespace-only line added, before a line of
\* s or after its last line
PaddedBy(s, padded) ==
    \E b \in BlankLines :
        \/ padded = s \o <<NL>> \o b
        \/ \E i \in 0..Len(s) :
              /\ i = 0 \/ s[i] = NL
              /\ padded = SubSeq(s, 1, i) \o b \o <<NL>> \o SubSeq(s, i + 1, Len(s))

\* C11: the success result of execute_pwsh_script reports as lines_count the
\* number of lines of the script that are not blank after trimming and as
\* is_multiline whether that number exceeds 1, and a script that differs by
\* one blank or whitespace-only line, added or removed anywhere, gets the
\* same two values.
C11_LinesCountIgnoresBlankLines ==
    Succeeded("execute_pwsh_script") =>
        LET s == request.script.s
            p == response.result.payload
        IN  /\ p.lines_count = Cardinality(LineStarts(s))
            /\ p.is_multiline = (Cardinality(LineStarts(s)) > 1)
            /\ \A other \in StrSet(MaxScript) :
                  (PaddedBy(s, other) \/ PaddedBy(other, s)) =>
                      LET q == ExecutePayload(other, ExecTimeout)
                      IN  q.lines_count = p.lines_count /\ q.is_multiline = p.is_multiline

\* C11, its case: a script of two commands with a blank line between them
C11_Witness ==
    /\ Succeeded("execute_pwsh_script")
    /\ request.script.s = <<"a", NL, NL, "a">>
    /\ response.result.payload.lines_count = 2
    /\ response.result.payload.is_multiline

AttemptsExhausted ==
    /\ pc = "write"
    /\ hist.ensure = "unavailable"
    /\ response.message = "Terminal window not available after multiple attempts"

\* C12, as claimed: a call of _ensure_terminal_available that ends by
\* declaring the terminal unavailable has made at most 10 window discoveries,
\* those of the first check, of the launch wait and of the post-launch loop
\* counted together.
C12_AtMostTenDiscoveries ==
    (hist.keep = "budget" /\ hist.ensure = "unavailable") =>
        hist.finds <= DEFAULT_RETRY_ATTEMPTS

\* C12, amended: the budget of 10 attempts bounds the post-launch loop alone.
\* A call that ends by declaring the terminal unavailable has made at most 10
\* post-launch discovery/focus attempts, each followed by one sleep of the
\* retry delay, and exactly 10 when it gives up after them; the launch wait
\* before it is bounded on its own, by max_wait polls for each command of the
\* list.
C12_RetryBudget ==
    hist.keep = "budget" =>
        /\ hist.post <= DEFAULT_RETRY_ATTEMPTS
        /\ pc = "retry" => (hist.post = attempt /\ hist.sleeps = attempt)
        /\ pc = "retry" => attempt < DEFAULT_RETRY_ATTEMPTS
        /\ hist.ensure = "unavailable" => hist.sleeps = hist.post
        /\ AttemptsExhausted =>
                (hist.post = DEFAULT_RETRY_ATTEMPTS /\ hist.sleeps = DEFAULT_RETRY_ATTEMPTS)
        /\ pc = "poll" =>
                (waited < max_wait * polls_per_second /\ cmd \in 1..Len(commands))

\* C12, its case: the call gives up after its 10 post-launch attempts, having
\* made more than 10 discoveries in all
C12_Witness ==
    /\ hist.keep = "budget"
    /\ AttemptsExhausted
    /\ hist.post = DEFAULT_RETRY_ATTEMPTS
    /\ hist.finds > DEFAULT_RETRY_ATTEMPTS

\* C13: when _ensure_terminal_available has returned (paste_content is next),
\* the last two session operations of the call were a window discovery that
\* returned a window and, after it, a focus request that returned true; and
\* paste_content is invoked, and input injected, only after such a return.
C13_ReadyMeansFoundThenFocused ==
    hist.keep = "order" =>
        /\ pc = "paste" =>
                /\ hist.ensure = "ready"
                /\ hist.last2 = <<"find:yes", "focus:yes">>
                /\ hist.pastes = 0
        /\ hist.ensure = "ready" => pc \in {"paste", "settle", "write"}
        /\ hist.pastes > 0 => (hist.ensure = "ready" /\ hist.pastes = 1)
        /\ touched \cap {"input", "clipboard_write"} # {} => hist.pastes = 1

\* C13, its case: the call returned after a launch and the post-launch loop
C13_Witness ==
    /\ hist.keep = "order"
    /\ pc = "paste"
    /\ "spawn" \in touched
    /\ attempt > 0
    /\ hist.last2 = <<"find:yes", "focus:yes">>

\* the call has ended in one of the failures of the tool's domain
TerminalUnavailable == hist.ensure = "unavailable"
PasteFailed == tool = "execute_pwsh_script" /\ hist.ensure = "ready" /\ response.tag = "error"
WindowNotLocated == tool = "capture_pwsh_response" /\ pc = "write" /\ ~hist.window.found
ClipboardReadFailed == tool = "get_clipboard" /\ hist.clipFault # ""

DomainFailure ==
    TerminalUnavailable \/ PasteFailed \/ WindowNotLocated \/ ClipboardReadFailed

\* C14: a tool call that passed name lookup and argument validation and ended
\* in a domain failure (terminal unavailable, paste failed after readiness,
\* window not locatable for capture, clipboard read error) is answered with a
\* result whose payload has success = false and an error string, not with a
\* JSON-RPC error.
C14_DomainFailuresAreResults ==
    (pc = "write" /\ tool # "none" /\ DomainFailure) =>
        /\ response.tag = "result"
        /\ ~response.result.payload.success
        /\ response.result.payload.error # ""

Captured == pc = "write" /\ tool = "capture_pwsh_response" /\ hist.window.found

ExcludesTitlebar == Truthy(Get(request.exclude_titlebar, JBool(TRUE)))

\* C15: with titlebar exclusion the rectangle captured is the window's with
\* top + 35 and height - 35, left and width unchanged; without it, the
\* window's rectangle; and when the resulting height or the width is not
\* positive no pixels are grabbed and the capture fails, not clamped.
C15_TitlebarExclusion ==
    Captured =>
        LET w == hist.window
            height == IF ExcludesTitlebar THEN w.height - 35 ELSE w.height
        IN  IF w.width <= 0 \/ height <= 0
            THEN /\ ~hist.grabbed
                 /\ "screen" \notin touched
                 /\ ~Succeeded("capture_pwsh_response")
            ELSE /\ hist.grabbed
                 /\ hist.bbox.left = w.left
                 /\ hist.bbox.width = w.width
                 /\ hist.bbox.top = (IF ExcludesTitlebar THEN w.top + 35 ELSE w.top)
                 /\ hist.bbox.height = height
                 /\ Succeeded("capture_pwsh_response") =>
                        /\ response.result.payload.width = w.width
                        /\ response.result.payload.height = height

\* C15, its case: a window exactly as high as the title bar, captured with
\* exclusion, is rejected
C15_Witness ==
    /\ Captured
    /\ ExcludesTitlebar
    /\ hist.window.width > 0
    /\ hist.window.height = 35
    /\ ~hist.grabbed
    /\ response.tag = "error"

\* C16: get_clipboard always ends in a result, never in a JSON-RPC error: on
\* a successful read with success = true, the clipboard text as content, its
\* number of characters as length and is_empty true exactly for length 0; on
\* a read that raises with success = false and an error holding the message
\* of the exception.  It reads the clipboard and does nothing else: no
\* session operation, no write of the clipboard.
C16_ClipboardAlwaysResult ==
    (pc = "write" /\ tool = "get_clipboard") =>
        LET p == response.result.payload
        IN  /\ response.tag = "result"
            /\ hist.clipRead
            /\ IF hist.clipFault = ""
               THEN /\ p.success
                    /\ p.content = hist.clipText
                    /\ p.length = Len(hist.clipText)
                    /\ p.is_empty = (p.length = 0)
               ELSE /\ ~p.success
                    /\ p.error = "Failed to get clipboard content: " \o hist.clipFault
            /\ touched = {"clipboard_read"}
            /\ hist.ensure = "none"
            /\ hist.last2 = <<"none", "none">>
            /\ hist.pastes = 0 /\ hist.launches = 0 /\ hist.finds = 0

\* C16, its case: the clipboard read raised and the call still ended in a result
C16_Witness ==
    /\ pc = "write"
    /\ tool = "get_clipboard"
    /\ hist.clipFault = "access denied"
    /\ response.tag = "result"
    /\ ~response.result.payload.success

\* C17: the loop ends cleanly on end-of-input, with nothing under way, and
\* cleanly on an interrupt; a tool call under way when the interrupt arrives
\* is not abandoned: when the loop has ended, no tool call is left without
\* its response written.  (That every line before the end was answered is
\* the statement of C3.)
C17_CleanShutdown ==
    /\ (pc = "done" /\ lineKind = "eof") =>
            (request = NoRequest /\ tool = "none" /\ response = NoResponse)
    /\ (pc = "done" /\ lineKind = "interrupt") => tool = "none"

FirstCheckAllYes == hist.running = "true" /\ hist.found = "yes" /\ hist.focused = "yes"

\* C18: if the first check of _ensure_terminal_available finds a terminal
\* process running, a window, and focus succeeds, the call returns ready
\* with no process spawned and the retry loop not entered; if the process is
\* not running, no window is found or focus fails, launch_terminal is called.
C18_FirstCheckShortCircuit ==
    (hist.keep = "first" /\ hist.running \in {"true", "false"}) =>
        IF FirstCheckAllYes
        THEN /\ hist.ensure = "ready"
             /\ pc \in {"paste", "settle", "write"}
             /\ hist.launches = 0
             /\ "spawn" \notin touched
             /\ hist.post = 0
        ELSE /\ hist.launches = 1
             /\ pc \in {"spawn", "poll", "cleanup", "retry", "paste", "settle", "write"}
             /\ pc \in {"paste", "settle"} => ("spawn" \in touched /\ hist.post > 0)

\* C18, its case: ready straight from the first check
C18_Witness ==
    /\ hist.keep = "first"
    /\ FirstCheckAllYes
    /\ pc = "paste"
    /\ hist.launches = 0
    /\ touched = {"process", "window", "focus"}

InOrder(spawned) == \A i \in 1..Len(spawned) : spawned[i] = i

\* C19: launch_terminal spawns its commands in the order of the list, the
\* next one only after the one before has failed (an exception, exited at
\* once, exited during the wait, no window within the wait); it returns True
\* at the first command whose process is alive when a terminal process and a
\* window are observed, and spawns nothing after that; it returns False only
\* when all 5 commands have failed.
C19_LaunchOrder ==
    hist.keep = "launch" =>
        /\ InOrder(hist.spawned)
        /\ Len(hist.spawned) <= 5
        /\ hist.failed > 0 =>
                hist.cause \in {"raised", "exited_immediately", "exited_in_wait", "no_window"}
        /\ pc = "spawn" => (cmd = Len(hist.spawned) + 1 /\ hist.failed = Len(hist.spawned))
        /\ pc \in {"poll", "cleanup"} =>
                (cmd = Len(hist.spawned) /\ hist.failed = cmd - 1 /\ hist.launched = "none")
        /\ hist.launched = "true" =>
                /\ pc \in {"retry", "paste", "settle", "write"}
                /\ proc = "alive"
                /\ {"process", "window"} \subseteq touched
                /\ hist.failed = Len(hist.spawned) - 1
        /\ hist.launched = "false" =>
                (pc = "write" /\ hist.failed = 5 /\ Len(hist.spawned) = 5)

\* C19, its case: the third command succeeded after two failed
C19_Witness ==
    /\ hist.keep = "launch"
    /\ hist.launched = "true"
    /\ hist.spawned = <<1, 2, 3>>
    /\ hist.failed = 2
    /\ pc = "retry"

\* C20: launch_terminal is called at most once in a call of
\* _ensure_terminal_available; once the call has declared the terminal
\* unavailable the request is over, answered with the error, with no paste
\* and nothing left to run but the write of the response; and the next call
\* starts at the first check with the counters and the record of the
\* readiness machine as at the start.
C20_FailedIsTerminal ==
    /\ hist.keep = "launch" => hist.launches <= 1
    /\ hist.ensure = "unavailable" =>
            /\ pc = "write"
            /\ response.tag = "error"
            /\ touched \cap {"input", "clipboard_write"} = {}
    /\ (hist.keep = "order" /\ hist.ensure = "unavailable") => hist.pastes = 0
    /\ pc = "ensure" =>
            /\ cmd = 0 /\ waited = 0 /\ attempt = 0
            /\ touched = {}
            /\ hist = NoHistory(hist.keep)

\* C20, its case: the call gave up after its one launch and the post-launch
\* attempts
C20_Witness ==
    /\ hist.keep = "launch"
    /\ AttemptsExhausted
    /\ hist.launches = 1
    /\ hist.launched = "true"


(***************************************************************************)
(* Properties of focus, of the paste and of the launcher.                  *)
(***************************************************************************)
\* paste_content has been called in a run that records it
Pasted == hist.keep = "paste" /\ hist.pastes > 0

\* focus_terminal() issued the activation request
ActivationIssued(requests) == \E i \in 1..Len(requests) : requests[i] = "activate"

\* C21: focus_terminal is best-effort.  For every answer of the window
\* capabilities: once a window is found and activate() has been called, the
\* result is True, whether activate() raised, another window is the active one
\* or the active-window check raised; and the result is False only when no
\* window was found or the enumeration faulted.  The same of the call
\* paste_content makes: with the activation issued the paste goes on to its
\* keys, and "Failed to paste" without a key sent means no window was found.
C21_FocusBestEffort ==
    /\ \A e \in FocusAnswers :
          /\ ActivationIssued(FocusRequests(e)) => FocusTerminal(e)
          /\ (e.found /\ ~e.fault) => ActivationIssued(FocusRequests(e))
          /\ ~FocusTerminal(e) => (~e.found \/ e.fault)
    /\ Pasted =>
          /\ ActivationIssued(hist.requests) => hist.pasteFocus = "yes"
          /\ hist.pasteFocus = "no" => (~hist.focusEnv.found \/ hist.focusEnv.fault)
          /\ hist.pasteFocus = "yes" => hist.keys # <<>>
          /\ hist.pasteFocus = "no" =>
                /\ hist.keys = <<>>
                /\ pc = "write"
                /\ response.tag = "error"

\* C21, its case: a window was found, activate() and the alternative raised,
\* the active-window check raised too, and the paste went on to success
C21_Witness ==
    /\ Pasted
    /\ pc = "settle"
    /\ hist.focusEnv.found
    /\ hist.focusEnv.activate = "alternative_raises"
    /\ hist.focusEnv.verify = "fault"
    /\ hist.pasteFocus = "yes"

\* what a paste with submit sends when nothing fails
FullPaste == <<"ctrl+c", "copy", "ctrl+v", "enter">>

\* the readiness machine gave up or faulted
EnsureFailed == hist.ensure \in {"unavailable", "fault"}

\* C22: a successful execute_pwsh_script call has, once each and in this
\* order, found the terminal ready, called paste_content with the script text
\* as received and with submit (interrupt key, clipboard write, paste key,
\* Enter: no key typed per character), taken the settle delay, 2 for a script
\* of more than one non-blank line and 1 otherwise, and produced the success
\* result; when readiness fails nothing is pasted, and when paste_content
\* reports failure no delay is taken and the answer is an error.
C22_ExecuteOrder ==
    hist.keep = "paste" =>
        /\ hist.pastes <= 1
        /\ hist.settles <= 1
        /\ \A i \in 1..Len(hist.keys) : hist.keys[i] \in {"ctrl+c", "copy", "ctrl+v", "enter"}
        /\ hist.pastes = 1 =>
                /\ hist.ensure = "ready"
                /\ hist.content = request.script.s
        /\ hist.settles = 1 => hist.pasteResult = "true"
        /\ pc = "settle" =>
                /\ hist.pasteResult = "true"
                /\ hist.settles = 0
        /\ Succeeded("execute_pwsh_script") =>
                /\ hist.ensure = "ready"
                /\ hist.pastes = 1
                /\ hist.pasteResult = "true"
                /\ hist.keys = FullPaste
                /\ hist.settles = 1
                /\ hist.settle = IF Cardinality(LineStarts(request.script.s)) > 1 THEN 2 ELSE 1
        /\ EnsureFailed =>
                /\ hist.pastes = 0
                /\ hist.keys = <<>>
                /\ hist.settles = 0
                /\ pc = "write"
                /\ response.tag = "error"
        /\ hist.pasteResult = "false" =>
                /\ hist.settles = 0
                /\ pc = "write"
                /\ response.tag = "error"

\* C22, its case: a script of two lines pasted, settled for and answered
C22_Witness ==
    /\ hist.keep = "paste"
    /\ Succeeded("execute_pwsh_script")
    /\ Cardinality(LineStarts(request.script.s)) = 2
    /\ hist.keys = FullPaste
    /\ hist.settle = 2

\* a script the validator is to call blank: empty, only whitespace, or a value
\* Python takes for false
BlankScript(v) == ~Truthy(v) \/ (v.k = "str" /\ IsWhitespace(v.s))

\* the message of the first constraint the arguments of an
\* execute_pwsh_script call violate, "" when they violate none
FirstViolation(req) ==
    IF req.script.k = "absent" THEN "Missing required argument: script"
    ELSE IF BlankScript(req.script) THEN "Script cannot be empty"
    ELSE IF BadTimeout(req.timeout)
    THEN "Timeout must be an integer between 1 and 300 seconds"
    ELSE ""

\* C23: for an execute_pwsh_script call the validator reports the first
\* violated constraint, a missing script before a blank script before an
\* invalid timeout, and the dispatcher answers -32602 with exactly that
\* message; it answers -32602 for the arguments in no other case.
C23_FirstViolationReported ==
    (Returned /\ CallsTool(request, "execute_pwsh_script") /\ request.arguments.k = "dict") =>
        LET message == FirstViolation(request)
        IN  /\ message # "" =>
                    /\ response.tag = "error"
                    /\ response.code = -32602
                    /\ response.message = message
            /\ (response.tag = "error" /\ response.code = -32602) =>
                    response.message = message

\* _ensure_terminal_available is running, with launch_terminal inside it
InEnsure == pc \in {"ensure", "spawn", "poll", "cleanup", "retry"}

\* it has returned (the paste is next) or raised (the answer is next)
EnsureOver == pc \in {"paste", "write"}

NoRepeat(seq) == \A i, j \in 1..Len(seq) : seq[i] = seq[j] => i = j

\* C24: every call of _ensure_terminal_available ends, ready or with the
\* terminal-unavailable error, whatever the process and window capabilities
\* answer; on the way it spawns at most one process for each of the 5 launch
\* commands, looks for the window at most 30 times per command, and makes at
\* most 10 attempts after the launch.
C24_EnsureTerminates ==
    /\ [](hist.keep = "launch" =>
            /\ Len(hist.spawned) <= 5
            /\ NoRepeat(hist.spawned)
            /\ hist.polls <= 30
            /\ hist.launches <= 1)
    /\ [](hist.keep = "first" => hist.post <= 10)
    /\ [](waited < 30 /\ attempt <= 10 /\ cmd <= 5)
    /\ InEnsure ~> EnsureOver

\* C24, its case: the fifth command was spawned and its window looked for 30
\* times in vain
C24_Witness ==
    /\ hist.keep = "launch"
    /\ pc = "cleanup"
    /\ Len(hist.spawned) = 5
    /\ hist.polls = 30

IsPrefix(seq, of) == Len(seq) <= Len(of) /\ seq = SubSeq(of, 1, Len(seq))

PasteFaults == {"none", "interrupt_key", "copy", "paste_key", "enter"}

\* C25: when paste_content cannot focus the terminal it returns False with
\* the clipboard as it was and no key sent; keys are sent and the clipboard is
\* written only after focus succeeded, in the order interrupt key, clipboard
\* write, paste key, Enter, and Enter only when submit is requested.  (A
\* step from "paste" to another place is the call of paste_content.)
C25_PasteFrame ==
    /\ [](\A execute \in BOOLEAN, fault \in PasteFaults :
            LET keys == PasteKeys(execute, fault)
            IN  /\ IsPrefix(keys, FullPaste)
                /\ keys # <<>>
                /\ (\E i \in 1..Len(keys) : keys[i] = "enter") => execute
                /\ fault = "none" => keys = SubSeq(FullPaste, 1, IF execute THEN 4 ELSE 3))
    /\ [](Pasted =>
            /\ IsPrefix(hist.keys, FullPaste)
            /\ hist.keys # <<>> => hist.pasteFocus = "yes"
            /\ hist.pasteFocus = "no" =>
                    /\ hist.pasteResult = "false"
                    /\ hist.keys = <<>>
                    /\ touched \cap {"input", "clipboard_write"} = {})
    /\ [][(pc = "paste" /\ pc' # "paste") =>
            /\ hist'.pasteFocus = "no" => clipboard' = clipboard
            /\ clipboard' # clipboard =>
                    /\ hist'.pasteFocus = "yes"
                    /\ IsPrefix(<<"ctrl+c", "copy">>, hist'.keys)]_vars

\* C25, its case: the clipboard holds the text of an earlier paste, and a
\* paste that could not focus the terminal has failed and left it there
C25_Witness ==
    /\ Pasted
    /\ pc = "write"
    /\ hist.pasteFocus = "no"
    /\ hist.pasteResult = "false"
    /\ clipboard.known

\* get_clipboard has answered, and no program has written the clipboard since
\* paste_content did
ReadAfterPaste == tool = "get_clipboard" /\ pc = "write" /\ clipboard.known

\* the call was rejected before its body, or failed in the readiness machine
RejectedOrNotReady ==
    /\ pc = "write"
    /\ lineKind = "object"
    /\ CallsTool(request, "execute_pwsh_script")
    /\ tool = "none" \/ EnsureFailed

\* where a call stands before paste_content is called
BeforePaste == {"dispatch", "execute", "ensure", "spawn", "poll", "cleanup", "retry"}

\* what C26 has in every reading: a successful execute_pwsh_script call
\* leaves its script text, as received, on the clipboard until another
\* program writes; and no step of a call before its paste_content writes the
\* clipboard, so a call rejected by validation or failing in the readiness
\* machine leaves it as it was
ClipboardBelongsToPaste ==
    /\ []((Succeeded("execute_pwsh_script") /\ hist.keep = "paste") =>
            (clipboard.known => clipboard.text = request.script.s))
    /\ [](RejectedOrNotReady => "clipboard_write" \notin touched)
    /\ [][(pc \in BeforePaste /\ ~OtherWriter) =>
            clipboard' = clipboard]_vars
    /\ [][(clipboard'.known /\ clipboard' # clipboard) =>
            (pc = "paste" /\ pc' \in {"settle", "write"})]_vars

TerminationWorks == hist.stubborn = 0

\* C27: in launch_terminal a command's process that is alive when the wait
\* for its window is over is terminated before the next command is spawned;
\* so, when termination works, at most one process the launcher spawned is
\* alive at any moment, none is alive when the next command is about to be
\* spawned, and a launch that failed has left none running.
C27_LauncherLeavesNoProcess ==
    (hist.keep = "launch" /\ TerminationWorks) =>
        /\ hist.alive <= 1
        /\ pc = "spawn" => hist.alive = 0
        /\ hist.launched = "false" => hist.alive = 0

=============================================================================
